---- MODULE Spec2Model ----
(***************************************************************************)
(* The ReAct revision loop of ItineraryRevisionAgent (src/src/model.py),   *)
(* its tool dispatcher get_observation_string, the tool registry           *)
(* (src/src/tools.py) and the evaluation runner (src/src/evals.py).        *)
(*                                                                         *)
(* Text is modelled by structure.  A model response is the list of pieces  *)
(* that resp.split("ACTION:") yields (every Python string has exactly one  *)
(* such decomposition), each piece being a text.  A text is either the     *)
(* serialization of a JSON value, possibly with a formatting defect that   *)
(* the repair pass removes, or prose that is no JSON at all, or blank.     *)
(***************************************************************************)
EXTENDS Integers, Sequences, FiniteSets, TLC

\* ------------------------------------------------------------------ bounds
MaxSteps == 2

\* Invocations of run_react_cycle on one agent instance.
MaxRuns == 2

\* Longest conversation followed when two agents are interleaved.
MaxMessages == 4

\* List objects created while two agents are interleaved.
MaxLists == 4

\* Longest list of travelers handed to an evaluator.
MaxTravelers == 2

\* Most activities of an itinerary handed to an evaluator.
MaxActivities == 2

\* Most days of an itinerary whose cost is checked.
MaxDays == 2

\* ------------------------------------------------------------- JSON values
\* A scalar or a missing key: [t, v].
Absent == [t |-> "absent", v |-> ""]

Str(s) == [t |-> "str", v |-> s]

Num(s) == [t |-> "int", v |-> s]

\* The field names of TravelPlan.
TravelPlanFields == {"city", "start_date", "end_date", "total_cost", "itinerary_days"}

\* A JSON object used as an argument mapping or as a plan payload:
\* its key set, the value under total_cost, and the value nested under the
\* key final_output or travel_plan (Absent when there is no such key).
Dict(keys, cost, nested) ==
    [t |-> "dict", keys |-> keys, total_cost |-> cost, nested |-> nested]

JList == [t |-> "list", keys |-> {}, total_cost |-> 0, nested |-> Absent]

\* A mapping with every TravelPlan field, well typed.
PlanDict(cost) == Dict(TravelPlanFields, cost, Absent)

\* The same mapping with total_cost missing.
PlanDictNoCost == Dict(TravelPlanFields \ {"total_cost"}, 0, Absent)

\* The plan handed to run_react_cycle.
OriginalPlan == [total_cost |-> 100]

\* A revised plan as the model may submit it.
RevisedPlanDict == PlanDict(80)

CalculatorArgs == Dict({"input_expression"}, 0, Absent)

ActivitiesArgs == Dict({"date"}, 0, Absent)

EvalsArgs == Dict({"travel_plan"}, 0, RevisedPlanDict)

FinalArgs == Dict({"final_output"}, 0, RevisedPlanDict)

FinalArgsNoCost == Dict({"final_output"}, 0, PlanDictNoCost)

ArgumentMappings ==
    { CalculatorArgs, ActivitiesArgs, EvalsArgs, FinalArgs, FinalArgsNoCost,
      RevisedPlanDict, PlanDictNoCost }

ArgumentsValues == {Absent, JList} \cup ArgumentMappings

RegisteredNames ==
    {"calculator_tool", "get_activities_by_date_tool", "run_evals_tool", "final_answer_tool"}

ToolNameStrings == RegisteredNames \cup {"nonexistent_tool", "Calculator_Tool"}

ToolNameValues == {Absent, Num("42")} \cup {Str(s) : s \in ToolNameStrings}

\* A JSON value as json.loads returns it: an object with (possibly missing)
\* keys tool_name and arguments, or a value that is no object.
JObject(tn, args) == [t |-> "object", tool_name |-> tn, arguments |-> args]

JNonObject(t) == [t |-> t, tool_name |-> Absent, arguments |-> Absent]

ToolCallObjects == {JObject(tn, a) : tn \in ToolNameValues, a \in ArgumentsValues}

NonObjects == {JNonObject("array"), JNonObject("string"), JNonObject("number")}

JSONValues == ToolCallObjects \cup NonObjects

\* -------------------------------------------------------------------- text
NoValue == JNonObject("none")

JsonText(val) == [kind |-> "json", val |-> val, damaged |-> FALSE]

\* The serialization of val with a defect (a missing closing brace, a
\* trailing comma) that the repair pass removes.
DamagedText(val) == [kind |-> "json", val |-> val, damaged |-> TRUE]

ProseText == [kind |-> "prose", val |-> NoValue, damaged |-> FALSE]

BlankText == [kind |-> "blank", val |-> NoValue, damaged |-> FALSE]

EmptyText == [kind |-> "empty", val |-> NoValue, damaged |-> FALSE]

DamagedSample ==
    { JObject(Str("calculator_tool"), CalculatorArgs),
      JObject(Str("final_answer_tool"), FinalArgs),
      JNonObject("array") }

\* The JSON values the model emits in the loop: a final answer with every
\* kind of arguments, each tool with its own arguments and with others, and
\* requests that fail one or several of the dispatcher's checks.
EmittedValues ==
    {JObject(Str("final_answer_tool"), a) : a \in ArgumentsValues}
        \cup {JObject(Str("calculator_tool"), a) :
                  a \in {Absent, JList, CalculatorArgs, EvalsArgs}}
        \cup {JObject(Str("run_evals_tool"), a) : a \in {EvalsArgs, FinalArgsNoCost}}
        \cup {JObject(Str("get_activities_by_date_tool"), ActivitiesArgs)}
        \cup {JObject(Str(n), CalculatorArgs) : n \in {"nonexistent_tool", "Calculator_Tool"}}
        \cup {JObject(Absent, a) : a \in {Absent, CalculatorArgs}}
        \cup {JObject(Num("42"), a) : a \in {JList, CalculatorArgs}}
        \cup NonObjects

ActionTexts ==
    {JsonText(v) : v \in EmittedValues} \cup {DamagedText(v) : v \in DamagedSample}
        \cup {ProseText, BlankText, EmptyText}

\* str.strip()
strip(text) == IF text.kind = "blank" THEN EmptyText ELSE text

\* json_repair.repair_json: a text that json.loads accepts, or a text the
\* repair heuristics recover, comes back as the canonical serialization of
\* its value; a text with nothing to recover comes back as the empty string.
repair_json(text) ==
    IF text.kind = "json" THEN JsonText(text.val) ELSE EmptyText

\* json.loads: the value, or JSONDecodeError.
json_loads(text) ==
    IF text.kind = "json" /\ ~text.damaged
    THEN [ok |-> TRUE, val |-> text.val]
    ELSE [ok |-> FALSE, val |-> NoValue]

\* ------------------------------------------------------------- TravelPlan
\* Variant: a validation that accepts any mapping.
TravelPlanValid_AnyMapping(payload) == payload.t = "dict"

\* TravelPlan.model_validate(payload): every field of the schema is required.
TravelPlanValid(payload) ==
    /\ payload.t = "dict"
    /\ TravelPlanFields \subseteq payload.keys

\* The validated instance built from a valid payload.
TravelPlanOf(payload) == [total_cost |-> payload.total_cost]

\* tool_call_obj["arguments"].get("final_output", tool_call_obj["arguments"]):
\* KeyError when the arguments key is missing, AttributeError when the value
\* has no get method.
FinalPayload(obj) ==
    IF obj.arguments.t # "dict"
    THEN [ok |-> FALSE, val |-> Absent]
    ELSE IF "final_output" \in obj.arguments.keys
         THEN [ok |-> TRUE, val |-> obj.arguments.nested]
         ELSE [ok |-> TRUE, val |-> obj.arguments]

\* --------------------------------------------------------- evaluation suite
ALL_EVAL_FUNCTIONS_1 ==
    << "eval_start_end_dates_match",
       "eval_total_cost_is_accurate",
       "eval_itinerary_events_match_actual_events",
       "eval_itinerary_satisfies_interests",
       "eval_total_cost_is_within_budget",
       "eval_activities_and_weather_are_compatible" >>

ALL_EVAL_FUNCTIONS == ALL_EVAL_FUNCTIONS_1 \o << "eval_traveler_feedback_is_incorporated" >>

\* What one evaluator does on the plan at hand: returns ("pass"), raises
\* AgentError, or raises RuntimeError (the two evaluators that consult the
\* external classifier, on a judgment outside their labels).
AllPass == [i \in 1..Len(ALL_EVAL_FUNCTIONS) |-> "pass"]

EvalVerdicts ==
    { AllPass,
      [AllPass EXCEPT ![2] = "AgentError"],
      [AllPass EXCEPT ![6] = "AgentError"],
      [AllPass EXCEPT ![6] = "RuntimeError"],
      [AllPass EXCEPT ![2] = "AgentError", ![7] = "AgentError"],
      [AllPass EXCEPT ![2] = "AgentError", ![7] = "RuntimeError"] }

\* Variant: the loop stops at the first evaluator that reports a failure.
EvalLoop_StopsAtFailure(eval_functions, verdicts, i, eval_results) ==
    LET failed == { j \in 1..Len(eval_functions) : verdicts[j] # "pass" }
        first == CHOOSE j \in failed : \A k \in failed : j <= k
    IN  IF failed = {}
        THEN [raised |-> FALSE, failures |-> << >>, ran |-> eval_functions]
        ELSE [raised |-> verdicts[first] = "RuntimeError",
              failures |-> IF verdicts[first] = "AgentError"
                           THEN << eval_functions[first] >> ELSE << >>,
              ran |-> SubSeq(eval_functions, 1, first)]

RECURSIVE EvalLoop(_, _, _, _)
\* The for loop of get_eval_results from evaluator i on. The message of a failed
\* evaluator is identified by the evaluator; ran lists the evaluators called.
EvalLoop(eval_functions, verdicts, i, eval_results) ==
    IF i > Len(eval_functions)
    THEN [raised |-> FALSE, failures |-> eval_results, ran |-> eval_functions]
    ELSE IF verdicts[i] = "pass"
         THEN EvalLoop(eval_functions, verdicts, i + 1, eval_results)
         ELSE IF verdicts[i] = "AgentError"
              THEN EvalLoop(eval_functions, verdicts, i + 1,
                            Append(eval_results, eval_functions[i]))
              ELSE [raised |-> TRUE, failures |-> eval_results,
                    ran |-> SubSeq(eval_functions, 1, i)]

\* EvaluationResults(success=len(eval_results) == 0, failures=eval_results,
\*                   eval_functions=[fn.__name__ for fn in eval_functions])
get_eval_results(eval_functions, verdicts) ==
    LET loop == EvalLoop(eval_functions, verdicts, 1, << >>)
    IN  [raised |-> loop.raised,
         success |-> ~loop.raised /\ Len(loop.failures) = 0,
         failures |-> loop.failures,
         eval_functions |-> eval_functions,
         ran |-> loop.ran]

\* ------------------------------------------------------------ tool registry
ALL_TOOLS ==
    << "calculator_tool", "get_activities_by_date_tool", "run_evals_tool", "final_answer_tool" >>

\* What a tool call produces: a returned value or a raised exception, both
\* rendered in the observation.
Value(t, v, failures) == [t |-> t, v |-> v, failures |-> failures]

Returned(value) == [raised |-> FALSE, value |-> value]

Raised(type) == [raised |-> TRUE, value |-> Value("exception", type, << >>)]

\* Binding of keyword arguments to a signature: every required parameter is
\* given and no unknown keyword is.
Binds(keys, required, optional) ==
    /\ required \subseteq keys
    /\ keys \subseteq (required \cup optional)

calculator_tool(arguments) ==
    IF Binds(arguments.keys, {"input_expression"}, {})
    THEN Returned(Value("float", "2.0", << >>))
    ELSE Raised("TypeError")

get_activities_by_date_tool(arguments) ==
    IF Binds(arguments.keys, {"date"}, {"city"})
    THEN Returned(Value("list", "activities", << >>))
    ELSE Raised("TypeError")

final_answer_tool(arguments) ==
    IF Binds(arguments.keys, {"final_output"}, {})
    THEN Returned(Value("plan", "final_output", << >>))
    ELSE Raised("TypeError")

\* run_evals_tool: a mapping is validated as a TravelPlan first; the runner
\* catches AgentError only, so a RuntimeError of an evaluator leaves the tool.
run_evals_tool(arguments, verdicts) ==
    IF ~Binds(arguments.keys, {"travel_plan"}, {})
    THEN Raised("TypeError")
    ELSE IF ~TravelPlanValid(arguments.nested)
         THEN Raised("ValidationError")
         ELSE LET resp == get_eval_results(ALL_EVAL_FUNCTIONS, verdicts)
              IN  IF resp.raised
                  THEN Raised("RuntimeError")
                  ELSE Returned(Value("dict",
                                      IF resp.success THEN "success" ELSE "failure",
                                      resp.failures))

\* tool_fn(**arguments)
InvokeTool(tool, arguments, verdicts) ==
    CASE tool = "calculator_tool" -> calculator_tool(arguments)
      [] tool = "get_activities_by_date_tool" -> get_activities_by_date_tool(arguments)
      [] tool = "run_evals_tool" -> run_evals_tool(arguments, verdicts)
      [] tool = "final_answer_tool" -> final_answer_tool(arguments)

\* ---------------------------------------------------------------- dispatcher
Observation(kind, name, detail) == [kind |-> kind, name |-> name, detail |-> detail]

NoDetail == Value("none", "", << >>)

\* Variant: a lookup that ignores letter case.
LowerCase(s) == IF s = "Calculator_Tool" THEN "calculator_tool" ELSE s

RECURSIVE FindTool_IgnoreCase(_, _)
FindTool_IgnoreCase(tool_name, i) ==
    IF i > Len(ALL_TOOLS)
    THEN "None"
    ELSE IF LowerCase(ALL_TOOLS[i]) = LowerCase(tool_name)
         THEN ALL_TOOLS[i]
         ELSE FindTool_IgnoreCase(tool_name, i + 1)

RECURSIVE FindTool(_, _)
\* for tool in self.tools: if tool.__name__ == tool_name: ... break
FindTool(tool_name, i) ==
    IF i > Len(ALL_TOOLS)
    THEN "None"
    ELSE IF ALL_TOOLS[i] = tool_name THEN ALL_TOOLS[i] ELSE FindTool(tool_name, i + 1)

\* Variant: a tool call without the try/except.
CallTool_Uncaught(tool_fn, tool_name, arguments, verdicts) ==
    LET r == InvokeTool(tool_fn, arguments, verdicts)
    IN  [raised |-> r.raised,
         obs |-> Observation(IF r.raised THEN "ToolError" ELSE "ToolSuccess", tool_name, r.value),
         calls |-> << tool_fn >>]

\* Variant: a try/except that lets RuntimeError through.
CallTool_FatalPropagates(tool_fn, tool_name, arguments, verdicts) ==
    LET r == InvokeTool(tool_fn, arguments, verdicts)
    IN  [raised |-> r.raised /\ r.value.v = "RuntimeError",
         obs |-> Observation(IF r.raised THEN "ToolError" ELSE "ToolSuccess", tool_name, r.value),
         calls |-> << tool_fn >>]

\* The try/except around the tool call: every Exception becomes an observation.
CallTool(tool_fn, tool_name, arguments, verdicts) ==
    LET r == InvokeTool(tool_fn, arguments, verdicts)
    IN  IF r.raised
        THEN [raised |-> FALSE, obs |-> Observation("ToolError", tool_name, r.value),
              calls |-> << tool_fn >>]
        ELSE [raised |-> FALSE, obs |-> Observation("ToolSuccess", tool_name, r.value),
              calls |-> << tool_fn >>]

NoCall(obs) == [raised |-> FALSE, obs |-> obs, calls |-> << >>]

\* Variant: the type of the tool name is checked before the arguments are looked at.
get_observation_string_NameFirst(tool_call_obj, verdicts) ==
    IF tool_call_obj.tool_name.t = "absent"
    THEN NoCall(Observation("NoToolName", Absent, NoDetail))
    ELSE IF tool_call_obj.tool_name.t # "str"
    THEN NoCall(Observation("ToolNameNotString", Absent, NoDetail))
    ELSE IF tool_call_obj.arguments.t = "absent"
    THEN NoCall(Observation("NoArguments", Absent, NoDetail))
    ELSE IF tool_call_obj.arguments.t # "dict"
    THEN NoCall(Observation("ArgumentsNotDict", Absent, NoDetail))
    ELSE LET tool_name == tool_call_obj.tool_name
             tool_fn == FindTool(tool_name.v, 1)
         IN  IF tool_fn = "None"
             THEN NoCall(Observation("UnknownTool", tool_name, NoDetail))
             ELSE CallTool(tool_fn, tool_name, tool_call_obj.arguments, verdicts)

\* get_observation_string on a mapping: the observation returned and the
\* tool bodies invoked on the way.
get_observation_string(tool_call_obj, verdicts) ==
    IF tool_call_obj.tool_name.t = "absent"
    THEN NoCall(Observation("NoToolName", Absent, NoDetail))
    ELSE IF tool_call_obj.arguments.t = "absent"
    THEN NoCall(Observation("NoArguments", Absent, NoDetail))
    ELSE IF tool_call_obj.arguments.t # "dict"
    THEN NoCall(Observation("ArgumentsNotDict", Absent, NoDetail))
    ELSE IF tool_call_obj.tool_name.t # "str"
    THEN NoCall(Observation("ToolNameNotString", Absent, NoDetail))
    ELSE LET tool_name == tool_call_obj.tool_name
             tool_fn == FindTool(tool_name.v, 1)
         IN  IF tool_fn = "None"
             THEN NoCall(Observation("UnknownTool", tool_name, NoDetail))
             ELSE CallTool(tool_fn, tool_name, tool_call_obj.arguments, verdicts)

\* ------------------------------------------------------------ model responses
\* The raw completion: None, or the pieces around its ACTION: markers.
NoneResponse == [none |-> TRUE, parts |-> << >>]

Response(parts) == [none |-> FALSE, parts |-> parts]

EmptyResponse == Response(<< EmptyText >>)

SubmitRevised == JsonText(JObject(Str("final_answer_tool"), FinalArgs))

CalculatorCall == JsonText(JObject(Str("calculator_tool"), CalculatorArgs))

EvalsCall == JsonText(JObject(Str("run_evals_tool"), EvalsArgs))

\* Responses with several ACTION: markers: a final answer before or after prose, two tool
\* calls, a tool call before a final answer, a JSON array before a tool call.
SeveralActions ==
    { Response(<< ProseText, ProseText, SubmitRevised >>),
      Response(<< ProseText, SubmitRevised, ProseText >>),
      Response(<< ProseText, CalculatorCall, EvalsCall >>),
      Response(<< ProseText, CalculatorCall, SubmitRevised >>),
      Response(<< ProseText, JsonText(JNonObject("array")), CalculatorCall >>) }

Responses ==
    {NoneResponse, EmptyResponse, Response(<< ProseText >>)}
        \cup {Response(<< ProseText, a >>) : a \in ActionTexts}
        \cup SeveralActions

\* get_response(...) or ""
OrEmpty(response) == IF response.none THEN EmptyResponse ELSE response

\* "ACTION:" in resp
HasAction(r) == Len(r.parts) > 1

\* resp.split("ACTION:")[1].strip()
ActionString(r) == strip(r.parts[2])

\* ----------------------------------------------------------------- the agent
VARIABLES
    pc,          \* where the caller is: "init", "loop", "returned", "raised", "dispatch", "dispatched"
    messages,    \* self.messages
    max_steps,   \* argument of run_react_cycle
    configured,  \* a client and a model are available to do_chat_completion
    step,        \* iterations of the for loop begun
    resp,        \* local resp of run_react_cycle
    result,      \* what run_react_cycle returned or raised
    requests,    \* calls of get_response made by the loop
    parses,      \* calls of repair_json made by the loop
    toolLog,     \* the tool bodies invoked, in order
    last,        \* the branch the last iteration took
    request,     \* argument of a direct get_observation_string call
    oracle,      \* what the evaluators do during that call
    observed,    \* its outcome
    plans,       \* the TravelPlan instances alive, and which one the run returned
    heap,        \* the list objects of the ChatAgent class and of its instances
    call         \* one call of an evaluation function: its input, progress and outcome

vars == << pc, messages, max_steps, configured, step, resp, result, requests, parses,
           toolLog, last, request, oracle, observed, plans, heap, call >>

Message(role, content) == [role |-> role, content |-> content]

SystemPrompt == [kind |-> "system_prompt"]

RevisionRequest == [kind |-> "itinerary_for_revision", plan |-> OriginalPlan]

NoPlan == [total_cost |-> -1]

NoResult == [kind |-> "none", plan |-> NoPlan, error |-> "", resp |-> NoneResponse]

ReturnedPlan(plan) == [kind |-> "returned", plan |-> plan, error |-> "", resp |-> NoneResponse]

RaisedError(error, r) == [kind |-> "raised", plan |-> NoPlan, error |-> error, resp |-> r]

\* RuntimeError("ReAct cycle did not complete within {max_steps} steps. ...")
ExhaustedError == "RuntimeError: ReAct cycle did not complete"

NoObservation == NoCall(Observation("none", Absent, NoDetail))

NoStep == [branch |-> "none", exception |-> ""]

\* The caller holds one TravelPlan, the original_travel_plan argument; nothing is returned yet.
CallerPlans == [instances |-> << OriginalPlan >>, returned |-> 0]

\* Variant: the validated fields are written into the caller's plan, which is returned.
model_validate_InPlace(p, plan) ==
    [instances |-> [p.instances EXCEPT ![1] = plan], returned |-> 1]

\* TravelPlan.model_validate(dict): a new instance, which run_react_cycle returns.
model_validate(p, plan) ==
    [instances |-> Append(p.instances, plan), returned |-> Len(p.instances) + 1]

\* Two instances are enough to tell one conversation from another.
Agents == {"a1", "a2"}

\* class ChatAgent: messages = [] is one list object, lists[1], owned by the class.
\* ref[a] = 0: the instance has no attribute of its own and reads the class attribute.
NoAgents ==
    [lists |-> << << >> >>, ref |-> [a \in Agents |-> 0], made |-> [a \in Agents |-> FALSE]]

\* No evaluation function is being called.
NoEvalCall == [fn |-> "none"]

\* ChatAgent.__init__ then reset(): the conversation holds the system prompt.
Init ==
    /\ pc = "init"
    /\ messages = << Message("system", SystemPrompt) >>
    /\ max_steps \in 0..MaxSteps
    /\ configured \in BOOLEAN
    /\ step = 0
    /\ resp = NoneResponse
    /\ result = NoResult
    /\ requests = 0
    /\ parses = 0
    /\ toolLog = << >>
    /\ last = NoStep
    /\ request = NoValue
    /\ oracle = AllPass
    /\ observed = NoObservation
    /\ plans = CallerPlans
    /\ heap = NoAgents
    /\ call = NoEvalCall

\* Entry of run_react_cycle: the plan to revise is appended as a user turn.
RunReactCycle ==
    /\ pc = "init"
    /\ pc' = "loop"
    /\ messages' = Append(messages, Message("user", RevisionRequest))
    /\ resp' = NoneResponse
    /\ UNCHANGED << max_steps, configured, step, result, requests, parses, toolLog, last,
                    request, oracle, observed, plans, heap, call >>

\* Variant: the loop body runs once more than max_steps allows.
Iterating_OneMore == pc = "loop" /\ step <= max_steps

\* for step in range(max_steps): another iteration remains.
Iterating == pc = "loop" /\ step < max_steps

\* get_response returned response: it is appended as the assistant turn.
GotResponse(response) ==
    /\ Iterating
    /\ configured
    /\ step' = step + 1
    /\ requests' = requests + 1
    /\ resp' = OrEmpty(response)
    /\ UNCHANGED << max_steps, configured, request, oracle, observed, heap, call >>

\* Variant: the iteration ends without an observation.
Continue_NoObservation(response, observation, branch, exception) ==
    /\ messages' = Append(messages, Message("assistant", response))
    /\ pc' = "loop"
    /\ last' = [branch |-> branch, exception |-> exception]
    /\ UNCHANGED << result, plans >>

\* The iteration ends with one user turn and the loop goes on.
Continue(response, observation, branch, exception) ==
    /\ messages' = messages \o << Message("assistant", response), Message("user", observation) >>
    /\ pc' = "loop"
    /\ last' = [branch |-> branch, exception |-> exception]
    /\ UNCHANGED << result, plans >>

\* do_chat_completion raises ValueError: no client or no model.
StepNoClient ==
    /\ Iterating
    /\ ~configured
    /\ step' = step + 1
    /\ requests' = requests + 1
    /\ pc' = "raised"
    /\ result' = RaisedError("ValueError", resp)
    /\ last' = [branch |-> "model_call_failed", exception |-> "ValueError"]
    /\ UNCHANGED << messages, max_steps, configured, resp, parses, toolLog, request, oracle,
                    observed, plans, heap, call >>

\* Variant: a provider failure is swallowed and the next step asks again.
StepProviderError_Retries ==
    /\ Iterating
    /\ configured
    /\ step' = step + 1
    /\ requests' = requests + 1
    /\ pc' = "loop"
    /\ last' = [branch |-> "model_call_failed", exception |-> "ProviderError"]
    /\ UNCHANGED << messages, max_steps, configured, resp, result, parses, toolLog, request,
                    oracle, observed, plans, heap, call >>

\* The provider call raises, or the reply carries an error.
StepProviderError ==
    /\ Iterating
    /\ configured
    /\ step' = step + 1
    /\ requests' = requests + 1
    /\ pc' = "raised"
    /\ result' = RaisedError("ProviderError", resp)
    /\ last' = [branch |-> "model_call_failed", exception |-> "ProviderError"]
    /\ UNCHANGED << messages, max_steps, configured, resp, parses, toolLog, request, oracle,
                    observed, plans, heap, call >>

\* Variant: a missing action ends the run.
StepNoAction_Fatal ==
    \E response \in Responses :
        /\ GotResponse(response)
        /\ ~HasAction(OrEmpty(response))
        /\ messages' = Append(messages, Message("assistant", response))
        /\ pc' = "raised"
        /\ result' = RaisedError("ValueError", OrEmpty(response))
        /\ last' = [branch |-> "no_action", exception |-> "ValueError"]
        /\ UNCHANGED << parses, toolLog, plans >>

\* if "ACTION:" not in resp
StepNoAction ==
    \E response \in Responses :
        /\ GotResponse(response)
        /\ ~HasAction(OrEmpty(response))
        /\ Continue(response, Observation("NoActionFound", Absent, NoDetail), "no_action", "")
        /\ UNCHANGED << parses, toolLog >>

\* except json.JSONDecodeError: action_string already holds the repaired text.
StepInvalidJSON ==
    \E response \in Responses :
        /\ GotResponse(response)
        /\ HasAction(OrEmpty(response))
        /\ LET action_string == repair_json(ActionString(OrEmpty(response)))
           IN  /\ ~json_loads(action_string).ok
               /\ Continue(response, Observation("InvalidJSON", Absent, action_string),
                           "invalid_json", "JSONDecodeError")
        /\ parses' = parses + 1
        /\ UNCHANGED toolLog

\* tool_call_obj.get on a value that is no mapping: AttributeError, uncaught.
StepNotAMapping ==
    \E response \in Responses :
        /\ GotResponse(response)
        /\ HasAction(OrEmpty(response))
        /\ LET action_string == repair_json(ActionString(OrEmpty(response)))
               loaded == json_loads(action_string)
           IN  /\ loaded.ok
               /\ loaded.val.t # "object"
        /\ messages' = Append(messages, Message("assistant", response))
        /\ pc' = "raised"
        /\ result' = RaisedError("AttributeError", OrEmpty(response))
        /\ last' = [branch |-> "not_a_mapping", exception |-> "AttributeError"]
        /\ parses' = parses + 1
        /\ UNCHANGED << toolLog, plans >>

\* An earlier observation of the run reports that run_evals_tool found no failure.
EvaluationPassed ==
    \E i \in 1..Len(messages) :
        /\ messages[i].role = "user"
        /\ messages[i].content.kind = "ToolSuccess"
        /\ messages[i].content.name = Str("run_evals_tool")
        /\ messages[i].content.detail.v = "success"

\* Variant: the rule of the prompt is enforced: a final answer is accepted only after an
\* evaluation that passed, and is answered by an observation otherwise.
StepFinalAnswer_AfterEvaluation ==
    \E response \in Responses :
        /\ GotResponse(response)
        /\ HasAction(OrEmpty(response))
        /\ LET action_string == repair_json(ActionString(OrEmpty(response)))
               loaded == json_loads(action_string)
               tool_call_obj == loaded.val
               payload == FinalPayload(tool_call_obj)
           IN  /\ loaded.ok
               /\ tool_call_obj.t = "object"
               /\ tool_call_obj.tool_name = Str("final_answer_tool")
               /\ payload.ok
               /\ TravelPlanValid(payload.val)
               /\ IF EvaluationPassed
                  THEN /\ result' = ReturnedPlan(TravelPlanOf(payload.val))
                       /\ plans' = model_validate(plans, TravelPlanOf(payload.val))
                       /\ messages' = Append(messages, Message("assistant", response))
                       /\ pc' = "returned"
                       /\ last' = [branch |-> "final_answer", exception |-> ""]
                  ELSE Continue(response, Observation("EvaluationRequired", Absent, NoDetail),
                                "final_answer", "")
        /\ parses' = parses + 1
        /\ UNCHANGED toolLog

\* tool_name == "final_answer_tool" and the payload validates: return.
StepFinalAnswer ==
    \E response \in Responses :
        /\ GotResponse(response)
        /\ HasAction(OrEmpty(response))
        /\ LET action_string == repair_json(ActionString(OrEmpty(response)))
               loaded == json_loads(action_string)
               tool_call_obj == loaded.val
               payload == FinalPayload(tool_call_obj)
           IN  /\ loaded.ok
               /\ tool_call_obj.t = "object"
               /\ tool_call_obj.tool_name = Str("final_answer_tool")
               /\ payload.ok
               /\ TravelPlanValid(payload.val)
               /\ result' = ReturnedPlan(TravelPlanOf(payload.val))
               /\ plans' = model_validate(plans, TravelPlanOf(payload.val))
        /\ messages' = Append(messages, Message("assistant", response))
        /\ pc' = "returned"
        /\ last' = [branch |-> "final_answer", exception |-> ""]
        /\ parses' = parses + 1
        /\ UNCHANGED toolLog

\* Variant: the validation error of a final answer is not caught.
StepFinalAnswerInvalid_Raises ==
    \E response \in Responses :
        /\ GotResponse(response)
        /\ HasAction(OrEmpty(response))
        /\ LET action_string == repair_json(ActionString(OrEmpty(response)))
               loaded == json_loads(action_string)
               tool_call_obj == loaded.val
               payload == FinalPayload(tool_call_obj)
           IN  /\ loaded.ok
               /\ tool_call_obj.t = "object"
               /\ tool_call_obj.tool_name = Str("final_answer_tool")
               /\ ~(payload.ok /\ TravelPlanValid(payload.val))
        /\ messages' = Append(messages, Message("assistant", response))
        /\ pc' = "raised"
        /\ result' = RaisedError("ValidationError", OrEmpty(response))
        /\ last' = [branch |-> "final_answer_invalid", exception |-> "ValidationError"]
        /\ parses' = parses + 1
        /\ UNCHANGED << toolLog, plans >>

\* tool_name == "final_answer_tool" and the try block raises.
StepFinalAnswerInvalid ==
    \E response \in Responses :
        /\ GotResponse(response)
        /\ HasAction(OrEmpty(response))
        /\ LET action_string == repair_json(ActionString(OrEmpty(response)))
               loaded == json_loads(action_string)
               tool_call_obj == loaded.val
               payload == FinalPayload(tool_call_obj)
               exception == IF ~payload.ok
                            THEN IF tool_call_obj.arguments.t = "absent"
                                 THEN "KeyError" ELSE "AttributeError"
                            ELSE "ValidationError"
           IN  /\ loaded.ok
               /\ tool_call_obj.t = "object"
               /\ tool_call_obj.tool_name = Str("final_answer_tool")
               /\ ~(payload.ok /\ TravelPlanValid(payload.val))
               /\ Continue(response,
                           Observation("FinalAnswerInvalid", Absent,
                                       Value("exception", exception, << >>)),
                           "final_answer_invalid", exception)
        /\ parses' = parses + 1
        /\ UNCHANGED toolLog

\* Every other tool name: the dispatcher's observation is appended.
StepDispatch ==
    \E response \in Responses, verdicts \in EvalVerdicts :
        /\ GotResponse(response)
        /\ HasAction(OrEmpty(response))
        /\ LET action_string == repair_json(ActionString(OrEmpty(response)))
               loaded == json_loads(action_string)
               tool_call_obj == loaded.val
               out == get_observation_string(tool_call_obj, verdicts)
           IN  /\ loaded.ok
               /\ tool_call_obj.t = "object"
               /\ tool_call_obj.tool_name # Str("final_answer_tool")
               /\ IF out.raised
                  THEN /\ messages' = Append(messages, Message("assistant", response))
                       /\ pc' = "raised"
                       /\ result' = RaisedError(out.obs.detail.v, OrEmpty(response))
                       /\ last' = [branch |-> "dispatch", exception |-> out.obs.detail.v]
                       /\ UNCHANGED plans
                  ELSE Continue(response, out.obs, "dispatch",
                                IF out.obs.kind = "ToolError" THEN out.obs.detail.v ELSE "")
               /\ toolLog' = toolLog \o out.calls
        /\ parses' = parses + 1

\* The for loop ran out: raise RuntimeError with the last response.
Exhausted ==
    /\ pc = "loop"
    /\ step >= max_steps
    /\ pc' = "raised"
    /\ result' = RaisedError(ExhaustedError, resp)
    /\ UNCHANGED << messages, max_steps, configured, step, resp, requests, parses, toolLog,
                    last, request, oracle, observed, plans, heap, call >>

Next ==
    \/ RunReactCycle
    \/ StepNoClient
    \/ StepProviderError
    \/ StepNoAction
    \/ StepInvalidJSON
    \/ StepNotAMapping
    \/ StepFinalAnswer
    \/ StepFinalAnswerInvalid
    \/ StepDispatch
    \/ Exhausted

Spec == Init /\ [][Next]_vars

\* The caller's thread keeps running: every call the loop makes returns or raises, so a
\* step that can be taken is taken.
SpecFair == Spec /\ WF_vars(Next)

\* ------------------------------------------- run_react_cycle called once more
\* The invocations so far: each one appended the plan to revise as a user turn.
Invocations ==
    Cardinality({ i \in 1..Len(messages) : messages[i] = Message("user", RevisionRequest) })

\* The caller invokes run_react_cycle again on the agent that finished a run: the method
\* appends the plan to self.messages as it stands and starts its loop anew.
RunReactCycleAgain ==
    /\ pc \in {"returned", "raised"}
    /\ Invocations < MaxRuns
    /\ pc' = "loop"
    /\ messages' = Append(messages, Message("user", RevisionRequest))
    /\ resp' = NoneResponse
    /\ step' = 0
    /\ result' = NoResult
    /\ last' = NoStep
    /\ plans' = [plans EXCEPT !.returned = 0]
    /\ UNCHANGED << max_steps, configured, requests, parses, toolLog, request, oracle,
                    observed, heap, call >>

\* The runs are kept short: the second one starts from every end of the first.
InitReinvoke == Init /\ max_steps < MaxSteps

NextReinvoke == Next \/ RunReactCycleAgain

SpecReinvoke == InitReinvoke /\ [][NextReinvoke]_vars

\* ------------------------------------------------ conversations of two agents
loopVars == << pc, messages, max_steps, configured, step, resp, result, requests, parses,
               toolLog, last, request, oracle, observed >>

\* self.messages: the instance attribute when there is one, else the class attribute.
MessagesRef(h, a) == IF h.ref[a] = 0 THEN 1 ELSE h.ref[a]

MessagesOf(h, a) == h.lists[MessagesRef(h, a)]

\* self.messages.append({"role": role, "content": content}); the content is tagged by
\* the agent whose method appended it.
add_message(h, a, role) ==
    [h EXCEPT !.lists[MessagesRef(h, a)] = Append(@, Message(role, a))]

\* Variant: reset empties the list in place and binds no attribute of the instance.
reset_InPlace(h, a) ==
    add_message([h EXCEPT !.lists[MessagesRef(h, a)] = << >>], a, "system")

\* self.messages = []: a new list object bound to the instance, then the system prompt.
\* The list the instance referred to before is garbage and its content is dropped.
reset(h, a) ==
    LET old == h.ref[a]
        kept == IF old = 0 THEN h.lists ELSE [h.lists EXCEPT ![old] = << >>]
        fresh == [h EXCEPT !.lists = Append(kept, << >>), !.ref[a] = Len(h.lists) + 1]
    IN  add_message(fresh, a, "system")

Roles == {"system", "user", "assistant"}

CanAppend(a, n) == heap.made[a] /\ Len(MessagesOf(heap, a)) + n <= MaxMessages

InitAgents ==
    /\ pc = "agents"
    /\ messages = << >>
    /\ max_steps = 0
    /\ configured = TRUE
    /\ step = 0
    /\ resp = NoneResponse
    /\ result = NoResult
    /\ requests = 0
    /\ parses = 0
    /\ toolLog = << >>
    /\ last = NoStep
    /\ request = NoValue
    /\ oracle = AllPass
    /\ observed = NoObservation
    /\ plans = CallerPlans
    /\ heap = NoAgents
    /\ call = NoEvalCall

\* ChatAgent.__init__: the attributes are set and reset() is called.
Construct(a) ==
    /\ ~heap.made[a]
    /\ Len(heap.lists) < MaxLists
    /\ heap' = [reset(heap, a) EXCEPT !.made[a] = TRUE]
    /\ UNCHANGED << loopVars, plans, call >>

AddMessage(a, role) ==
    /\ CanAppend(a, 1)
    /\ heap' = add_message(heap, a, role)
    /\ UNCHANGED << loopVars, plans, call >>

Reset(a) ==
    /\ heap.made[a]
    /\ Len(heap.lists) < MaxLists
    /\ heap' = reset(heap, a)
    /\ UNCHANGED << loopVars, plans, call >>

\* get_response(add_to_messages=True): the reply is appended as the assistant turn.
GetResponse(a) ==
    /\ CanAppend(a, 1)
    /\ heap' = add_message(heap, a, "assistant")
    /\ UNCHANGED << loopVars, plans, call >>

\* chat: the user turn, then get_response.
Chat(a) ==
    /\ CanAppend(a, 2)
    /\ heap' = add_message(add_message(heap, a, "user"), a, "assistant")
    /\ UNCHANGED << loopVars, plans, call >>

\* run_react_cycle on the agent: the plan as a user turn, then one iteration.
ReactCycle(a) ==
    /\ CanAppend(a, 3)
    /\ heap' = add_message(add_message(add_message(heap, a, "user"), a, "assistant"), a, "user")
    /\ UNCHANGED << loopVars, plans, call >>

NextAgents ==
    \E a \in Agents :
        \/ Construct(a)
        \/ \E role \in Roles : AddMessage(a, role)
        \/ Reset(a)
        \/ GetResponse(a)
        \/ Chat(a)
        \/ ReactCycle(a)

SpecAgents == InitAgents /\ [][NextAgents]_vars

\* ------------------------------------------ the evaluation functions on their own
\* One call of an evaluation function: what is called, on which input, and its outcome.
EvalCall(fn, input) == [fn |-> fn, state |-> "called", input |-> input]

\* The call returned output, or raised it.
Finished(c, state, output) ==
    [fn |-> c.fn, state |-> state, input |-> c.input, output |-> output]

Outcomes == {"pass", "AgentError", "RuntimeError"}

\* get_eval_results on the two lists of evals.py and on the empty list;
\* valid: vacation_info and final_output are of the classes the runner checks for.
GetEvalResultsInputs ==
    [valid : BOOLEAN,
     eval_functions : {<< >>, ALL_EVAL_FUNCTIONS_1, ALL_EVAL_FUNCTIONS},
     verdicts : [1..Len(ALL_EVAL_FUNCTIONS) -> Outcomes]]

\* ---- eval_traveler_feedback_is_incorporated
FeedbackLabels ==
    {"FULLY_INCORPORATED", "PARTIALLY_INCORPORATED", "NOT_INCORPORATED", "UNKNOWN"}

\* A reply of the judging agent, by what the evaluator can tell of it: whether there is a
\* reply at all, whether it holds the marker "FINAL OUTPUT:", the label that follows the
\* marker ("none": no label of the taxonomy) and the labels mentioned elsewhere in it.
FeedbackReply(marker, final, mentions) ==
    [none |-> FALSE, marker |-> marker, final |-> final, mentions |-> mentions]

NoReply == [none |-> TRUE, marker |-> FALSE, final |-> "none", mentions |-> {}]

FeedbackReplies ==
    {NoReply}
    \cup { FeedbackReply(FALSE, "none", m) : m \in SUBSET FeedbackLabels }
    \cup { FeedbackReply(TRUE, f, m) : f \in FeedbackLabels \cup {"none"},
                                       m \in SUBSET FeedbackLabels }

\* label in resp
Mentions(reply, label) == reply.final = label \/ label \in reply.mentions

Passed == [type |-> "none", message |-> "none"]

Error(type, message) == [type |-> type, message |-> message]

\* The checks of the reply, in the order of the code. "x in None" is a TypeError.
eval_traveler_feedback_is_incorporated(reply) ==
    IF reply.none
    THEN Error("TypeError", "none")
    ELSE IF ~reply.marker
         THEN Error("RuntimeError", "none")
         ELSE IF ~Mentions(reply, "FULLY_INCORPORATED")
              THEN Error("AgentError", reply.final)
              ELSE Passed

\* ---- eval_itinerary_satisfies_interests
Names == {"Ann", "Bob"}

Interests == {"art", "sports"}

\* The sequences over S of a length from lo to hi.
SeqsOf(S, lo, hi) == UNION { [1..n -> S] : n \in lo..hi }

\* vacation_info.travelers: at least one traveler; names may repeat.
TravelerLists == SeqsOf([name : Names, interests : SUBSET Interests], 1, MaxTravelers)

\* The related_interests of the activities of the itinerary, day after day.
ActivityLists == SeqsOf(SUBSET Interests, 0, MaxActivities)

RECURSIVE DictKeys(_, _)
\* The keys of a dict filled by d[traveler.name] = ... for the first i travelers: a name
\* keeps the place of its first insertion.
DictKeys(travelers, i) ==
    IF i = 0
    THEN << >>
    ELSE LET keys == DictKeys(travelers, i - 1)
         IN  IF \E k \in 1..Len(keys) : keys[k] = travelers[i].name
             THEN keys
             ELSE Append(keys, travelers[i].name)

\* traveler_to_interests[name]: the last assignment under that key wins.
DictValue(travelers, name) ==
    LET last_one == CHOOSE i \in 1..Len(travelers) :
                        /\ travelers[i].name = name
                        /\ \A j \in 1..Len(travelers) : travelers[j].name = name => j <= i
    IN  travelers[last_one].interests

eval_itinerary_satisfies_interests(travelers, activities) ==
    LET traveler_to_interests(name) == DictValue(travelers, name)
        interest_hit_count(name) ==
            Cardinality({ k \in 1..Len(activities) :
                            traveler_to_interests(name) \cap activities[k] # {} })
        NoHits(name) == interest_hit_count(name) = 0
        travelers_with_no_interest_hits ==
            SelectSeq(DictKeys(travelers, Len(travelers)), NoHits)
    IN  IF travelers_with_no_interest_hits # << >>
        THEN Error("AgentError", travelers_with_no_interest_hits)
        ELSE Passed

InterestsInputs == [travelers : TravelerLists, activities : ActivityLists]

\* ---- eval_activities_and_weather_are_compatible
\* The two labels of the prompt and the two misspellings the code also looks for.
WeatherLabels == {"IS_COMPATIBLE", "IS_INCOMPATIBLE", "IS_COMPATIBILE", "IS_INCOMPATIBILE"}

\* A reply of the judging model: the label under FINAL ANSWER ("none": no label) and the
\* labels mentioned elsewhere in it, in the reasoning. No reply at all is read as "".
WeatherReply(final, mentions) == [final |-> final, mentions |-> mentions]

WeatherReplies ==
    { WeatherReply(f, m) : f \in WeatherLabels \cup {"none"},
                           m \in {{}, {"IS_COMPATIBLE"}, {"IS_INCOMPATIBLE"}} }

\* One reply per scheduled activity, in itinerary order; activity i is named i.
JudgmentLists == SeqsOf(WeatherReplies, 0, MaxActivities)

Judged(type, message, consulted) ==
    [type |-> type, message |-> message, consulted |-> consulted]

RECURSIVE JudgeActivities(_, _, _)
\* The loops over days and activities from activity i on.
JudgeActivities(replies, i, activities_that_are_incompatible) ==
    IF i > Len(replies)
    THEN IF activities_that_are_incompatible # << >>
         THEN Judged("AgentError", activities_that_are_incompatible, Len(replies))
         ELSE Judged("none", << >>, Len(replies))
    ELSE IF Mentions(replies[i], "IS_COMPATIBLE") \/ Mentions(replies[i], "IS_COMPATIBILE")
         THEN JudgeActivities(replies, i + 1, activities_that_are_incompatible)
         ELSE IF \/ Mentions(replies[i], "IS_INCOMPATIBLE")
                 \/ Mentions(replies[i], "IS_INCOMPATIBILE")
              THEN JudgeActivities(replies, i + 1,
                                   Append(activities_that_are_incompatible, i))
              ELSE Judged("RuntimeError", << >>, i)

eval_activities_and_weather_are_compatible(replies) == JudgeActivities(replies, 1, << >>)

\* ---- eval_total_cost_is_accurate
\* Activity.price is an integer above 0: two prices are told apart.
Prices == {1, 2}

\* A day holds any number of activities.
DayPrices == SeqsOf(Prices, 0, MaxActivities)

\* TravelPlan.total_cost is any integer: from below 0 to above the highest sum of prices.
CostPlans ==
    [total_cost : (-1)..(MaxDays * MaxActivities * 2 + 1),
     itinerary_days : SeqsOf(DayPrices, 0, MaxDays)]

RECURSIVE DayCost(_, _)
\* The inner loop: the prices of the first j activities of a day.
DayCost(prices, j) == IF j = 0 THEN 0 ELSE DayCost(prices, j - 1) + prices[j]

RECURSIVE ActualTotalCost(_, _)
\* The outer loop: actual_total_cost after the first i days.
ActualTotalCost(days, i) ==
    IF i = 0 THEN 0 ELSE ActualTotalCost(days, i - 1) + DayCost(days[i], Len(days[i]))

CostMismatch(actual, stated) == [actual |-> actual, stated |-> stated]

\* Variant: a difference of one unit is let through.
eval_total_cost_is_accurate_Tolerant(final_output) ==
    LET actual_total_cost ==
            ActualTotalCost(final_output.itinerary_days, Len(final_output.itinerary_days))
        stated_total_cost == final_output.total_cost
    IN  IF actual_total_cost - stated_total_cost \notin {-1, 0, 1}
        THEN Error("AgentError", CostMismatch(actual_total_cost, stated_total_cost))
        ELSE Passed

\* int(final_output.total_cost) is total_cost itself: the field is validated as an int.
eval_total_cost_is_accurate(final_output) ==
    LET actual_total_cost ==
            ActualTotalCost(final_output.itinerary_days, Len(final_output.itinerary_days))
        stated_total_cost == final_output.total_cost
    IN  IF actual_total_cost # stated_total_cost
        THEN Error("AgentError", CostMismatch(actual_total_cost, stated_total_cost))
        ELSE Passed

\* The inputs an evaluation function is called on.
EvalInputs(fn) ==
    CASE fn = "get_eval_results" -> GetEvalResultsInputs
      [] fn = "eval_traveler_feedback_is_incorporated" -> FeedbackReplies
      [] fn = "eval_itinerary_satisfies_interests" -> InterestsInputs
      [] fn = "eval_activities_and_weather_are_compatible" -> JudgmentLists
      [] fn = "eval_total_cost_is_accurate" -> CostPlans

EvalFunctions ==
    {"get_eval_results", "eval_traveler_feedback_is_incorporated",
     "eval_itinerary_satisfies_interests", "eval_activities_and_weather_are_compatible",
     "eval_total_cost_is_accurate"}

InitEvals ==
    /\ pc = "evals"
    /\ messages = << >>
    /\ max_steps = 0
    /\ configured = TRUE
    /\ step = 0
    /\ resp = NoneResponse
    /\ result = NoResult
    /\ requests = 0
    /\ parses = 0
    /\ toolLog = << >>
    /\ last = NoStep
    /\ request = NoValue
    /\ oracle = AllPass
    /\ observed = NoObservation
    /\ plans = CallerPlans
    /\ heap = NoAgents
    /\ \E fn \in EvalFunctions : \E input \in EvalInputs(fn) : call = EvalCall(fn, input)

Calling(fn) == pc = "evals" /\ call.fn = fn /\ call.state = "called"

CallGetEvalResults ==
    /\ Calling("get_eval_results")
    /\ call' = IF ~call.input.valid
               THEN Finished(call, "raised", "ValueError")
               ELSE LET r == get_eval_results(call.input.eval_functions, call.input.verdicts)
                    IN  IF r.raised
                        THEN Finished(call, "raised", "RuntimeError")
                        ELSE Finished(call, "returned", r)
    /\ UNCHANGED << loopVars, plans, heap >>

CallFeedbackIncorporated ==
    /\ Calling("eval_traveler_feedback_is_incorporated")
    /\ LET out == eval_traveler_feedback_is_incorporated(call.input)
       IN  call' = Finished(call, IF out = Passed THEN "returned" ELSE "raised", out)
    /\ UNCHANGED << loopVars, plans, heap >>

CallSatisfiesInterests ==
    /\ Calling("eval_itinerary_satisfies_interests")
    /\ LET out == eval_itinerary_satisfies_interests(call.input.travelers,
                                                     call.input.activities)
       IN  call' = Finished(call, IF out = Passed THEN "returned" ELSE "raised", out)
    /\ UNCHANGED << loopVars, plans, heap >>

CallWeatherCompatible ==
    /\ Calling("eval_activities_and_weather_are_compatible")
    /\ LET out == eval_activities_and_weather_are_compatible(call.input)
       IN  call' = Finished(call, IF out.type = "none" THEN "returned" ELSE "raised", out)
    /\ UNCHANGED << loopVars, plans, heap >>

CallTotalCostIsAccurate ==
    /\ Calling("eval_total_cost_is_accurate")
    /\ LET out == eval_total_cost_is_accurate(call.input)
       IN  call' = Finished(call, IF out = Passed THEN "returned" ELSE "raised", out)
    /\ UNCHANGED << loopVars, plans, heap >>

NextEvals ==
    \/ CallGetEvalResults
    \/ CallFeedbackIncorporated
    \/ CallSatisfiesInterests
    \/ CallWeatherCompatible
    \/ CallTotalCostIsAccurate

SpecEvals == InitEvals /\ [][NextEvals]_vars

\* ------------------------------------------- the dispatcher called on its own
\* get_observation_string is a public method: a caller hands it any mapping.
InitDispatcher ==
    /\ pc = "dispatch"
    /\ messages = << Message("system", SystemPrompt) >>
    /\ max_steps = 0
    /\ configured = TRUE
    /\ step = 0
    /\ resp = NoneResponse
    /\ result = NoResult
    /\ requests = 0
    /\ parses = 0
    /\ toolLog = << >>
    /\ last = NoStep
    /\ request \in ToolCallObjects
    /\ oracle \in EvalVerdicts
    /\ observed = NoObservation
    /\ plans = CallerPlans
    /\ heap = NoAgents
    /\ call = NoEvalCall

Dispatch ==
    /\ pc = "dispatch"
    /\ pc' = "dispatched"
    /\ observed' = get_observation_string(request, oracle)
    /\ toolLog' = toolLog \o observed'.calls
    /\ UNCHANGED << messages, max_steps, configured, step, resp, result, requests, parses,
                    last, request, oracle, plans, heap, call >>

NextDispatcher == Dispatch

SpecDispatcher == InitDispatcher /\ [][NextDispatcher]_vars

\* ================================================================ properties
\* The response the model gave in the iteration just run, as appended.
Answered == pc = "loop" /\ step' = step + 1 /\ Len(messages') > Len(messages)

Raw == messages'[Len(messages) + 1].content

\* The text after the first ACTION: marker of a response that has one.
Marked(r) == ~r.none /\ Len(r.parts) >= 2

\* The payload a final answer submits, read off the JSON value.
SubmittedPayload(val) ==
    IF "final_output" \in val.arguments.keys THEN val.arguments.nested ELSE val.arguments

\* The action is a final_answer_tool call whose payload has every TravelPlan field.
ValidFinalAnswer(r) ==
    /\ Marked(r)
    /\ r.parts[2].kind = "json"
    /\ r.parts[2].val.t = "object"
    /\ r.parts[2].val.tool_name = Str("final_answer_tool")
    /\ r.parts[2].val.arguments.t = "dict"
    /\ SubmittedPayload(r.parts[2].val).t = "dict"
    /\ TravelPlanFields \subseteq SubmittedPayload(r.parts[2].val).keys

\* C1: run_react_cycle returns a plan only in a step whose action names
\* final_answer_tool exactly and whose payload (arguments["final_output"] if
\* present, else the arguments mapping) validates as a TravelPlan, and the
\* value returned is that validated plan.
C1_ReturnOnlyThroughFinalAnswer ==
    /\ (result.kind = "returned") <=> (pc = "returned")
    /\ pc = "returned" =>
          /\ messages[Len(messages)].role = "assistant"
          /\ ValidFinalAnswer(messages[Len(messages)].content)
          /\ result.plan =
                [total_cost |->
                    SubmittedPayload(messages[Len(messages)].content.parts[2].val).total_cost]

\* A run returned the plan submitted as the arguments mapping itself.
C1_Witness ==
    /\ pc = "returned"
    /\ result.plan = [total_cost |-> 80]
    /\ "final_output" \notin messages[Len(messages)].content.parts[2].val.arguments.keys

\* C2 (as claimed): a run with max_steps = 1 whose model answered and never
\* gave a valid final answer ends in the exhaustion error carrying that answer.
C2_ExhaustedAfterOneStep ==
    (/\ max_steps = 1
     /\ pc = "raised"
     /\ Len(messages) > 2
     /\ ~ValidFinalAnswer(messages[3].content))
        => /\ result.error = ExhaustedError
           /\ result.resp = OrEmpty(messages[3].content)

\* A malformed action: no marker, text that is no JSON, a JSON value that is
\* no object, an object lacking a string tool_name or a mapping arguments,
\* or an unknown tool name.
Malformed(r) ==
    \/ ~Marked(r)
    \/ r.parts[2].kind # "json"
    \/ r.parts[2].val.t # "object"
    \/ r.parts[2].val.tool_name.t # "str"
    \/ r.parts[2].val.arguments.t # "dict"
    \/ r.parts[2].val.tool_name.v \notin RegisteredNames

\* C3 (as claimed): a step whose response carries a malformed action appends
\* one user observation after the assistant turn and the loop goes on.
C3_MalformedActionRecoverable ==
    [][(Answered /\ Malformed(Raw))
          => /\ pc' = "loop"
             /\ Len(messages') = Len(messages) + 2
             /\ messages'[Len(messages')].role = "user"]_vars

\* C4: get_observation_string returns an observation for every mapping and
\* never raises; when the tool it resolved raises, the observation is the
\* error observation with the tool name and the message, and when the tool
\* returns it is the success observation with the tool name and the value.
C4_DispatcherAlwaysObserves ==
    pc = "dispatched" =>
        /\ ~observed.raised
        /\ observed.obs.kind \in {"NoToolName", "NoArguments", "ArgumentsNotDict",
                                   "ToolNameNotString", "UnknownTool", "ToolError",
                                   "ToolSuccess"}
        /\ Len(observed.calls) = 1 =>
              LET r == InvokeTool(observed.calls[1], request.arguments, oracle)
              IN  observed.obs =
                      Observation(IF r.raised THEN "ToolError" ELSE "ToolSuccess",
                                  request.tool_name, r.value)

\* calculator_tool was called with keyword arguments it does not take.
C4_Witness ==
    /\ pc = "dispatched"
    /\ request.tool_name = Str("calculator_tool")
    /\ observed.calls = << "calculator_tool" >>
    /\ observed.obs.kind = "ToolError"
    /\ observed.obs.detail.v = "TypeError"

\* C5 (as claimed): once a fatal failure happened in a step, be it a failed
\* model call or a classifier judgment outside the labels inside
\* run_evals_tool, the run has ended with a raised error.
C5_FatalFailureUnwinds ==
    (last.branch = "model_call_failed" \/ last.exception = "RuntimeError") => pc = "raised"

\* C5 (amended): a failed model call ends the run with nothing appended; a
\* RuntimeError raised inside a dispatched tool is caught by the dispatcher
\* and appended as the error observation of that tool, and the loop goes on.
C5_FatalInsideToolIsObserved ==
    [][/\ (pc = "loop" /\ step' = step + 1 /\ last'.branch = "model_call_failed")
            => (pc' = "raised" /\ messages' = messages)
       /\ (Answered /\ last'.exception = "RuntimeError")
            => /\ pc' = "loop"
               /\ result' = result
               /\ messages' = messages \o
                     << Message("assistant", Raw),
                        Message("user", Observation("ToolError", Str("run_evals_tool"),
                                                    Value("exception", "RuntimeError", << >>))) >>
      ]_vars

\* The classifier's judgment was outside its labels inside run_evals_tool and
\* the loop stands ready for the next step.
C5_Witness ==
    /\ pc = "loop"
    /\ step < max_steps
    /\ last.exception = "RuntimeError"
    /\ toolLog = << "run_evals_tool" >>

\* C6: a response without an ACTION: marker (an empty or absent one too)
\* makes the loop append the "No action found in response." observation,
\* parse nothing, call no tool, use exactly one step, and go on.
C6_NoActionConsumesOneStep ==
    [][(Answered /\ ~Marked(Raw))
          => /\ messages' = messages \o
                   << Message("assistant", Raw),
                      Message("user", Observation("NoActionFound", Absent, NoDetail)) >>
             /\ parses' = parses
             /\ toolLog' = toolLog
             /\ requests' = requests + 1
             /\ pc' = "loop"
             /\ result' = result
             /\ max_steps' = max_steps]_vars

\* The model gave no response at all and a step remains.
C6_Witness ==
    /\ pc = "loop"
    /\ step = 1
    /\ max_steps > 1
    /\ Len(messages) = 4
    /\ messages[3].content.none
    /\ messages[4].content.kind = "NoActionFound"

\* The action names final_answer_tool and its payload does not validate.
InvalidFinalAnswer(r) ==
    /\ Marked(r)
    /\ r.parts[2].kind = "json"
    /\ r.parts[2].val.t = "object"
    /\ r.parts[2].val.tool_name = Str("final_answer_tool")
    /\ ~ValidFinalAnswer(r)

\* C7: a final_answer_tool action whose payload fails validation neither
\* returns nor raises: one user observation describing the error is appended,
\* the step is used, no tool is invoked, and the loop goes on.
C7_InvalidFinalAnswerContinues ==
    [][(Answered /\ InvalidFinalAnswer(Raw))
          => /\ pc' = "loop"
             /\ result' = result
             /\ Len(messages') = Len(messages) + 2
             /\ messages'[Len(messages')].role = "user"
             /\ messages'[Len(messages')].content.kind = "FinalAnswerInvalid"
             /\ toolLog' = toolLog
             /\ observed' = observed]_vars

\* A final answer without the arguments key was answered by an observation.
C7_Witness ==
    /\ pc = "loop"
    /\ Len(messages) = 4
    /\ InvalidFinalAnswer(messages[3].content)
    /\ messages[3].content.parts[2].val.arguments.t = "absent"
    /\ messages[4].content.kind = "FinalAnswerInvalid"

\* C8 (as claimed): the observation of a JSON parse failure holds the action
\* text as the model emitted it after the marker (surrounding blanks aside).
C8_InvalidJSONReportsRawText ==
    \A i \in 3..Len(messages) :
        (messages[i].role = "user" /\ messages[i].content.kind = "InvalidJSON")
            => \/ messages[i].content.detail = messages[i - 1].content.parts[2]
               \/ messages[i].content.detail = strip(messages[i - 1].content.parts[2])

\* The requests that pass the dispatcher's checks of shape.
WellFormed(req) == req.tool_name.t = "str" /\ req.arguments.t = "dict"

\* C9: the registry holds no name twice, and the dispatcher invokes a tool
\* body exactly when the requested name equals a registered name character
\* for character, then that tool once; any other name gives the unknown-tool
\* observation, no invocation and no error.
C9_ExactMatchLookup ==
    /\ \A i, j \in 1..Len(ALL_TOOLS) : ALL_TOOLS[i] = ALL_TOOLS[j] => i = j
    /\ {ALL_TOOLS[i] : i \in 1..Len(ALL_TOOLS)} = RegisteredNames
    /\ pc = "dispatched" =>
          /\ ~observed.raised
          /\ toolLog = observed.calls
          /\ IF WellFormed(request) /\ request.tool_name.v \in RegisteredNames
             THEN observed.calls = << request.tool_name.v >>
             ELSE observed.calls = << >>
          /\ (WellFormed(request) /\ request.tool_name.v \notin RegisteredNames)
                => observed.obs = Observation("UnknownTool", request.tool_name, NoDetail)

\* A registered name in another letter case was answered as unknown.
C9_Witness ==
    /\ pc = "dispatched"
    /\ request.tool_name = Str("Calculator_Tool")
    /\ request.arguments.t = "dict"
    /\ observed.obs.kind = "UnknownTool"
    /\ observed.calls = << >>

\* C10: a failed model request ends the run in that step: nothing is
\* appended, an error is raised, no plan is returned and no further request
\* is made.
C10_FailedModelCallNotRetried ==
    [][/\ (pc = "loop" /\ step < max_steps)
            => \/ Len(messages') > Len(messages)
               \/ /\ messages' = messages
                  /\ pc' = "raised"
                  /\ result'.kind = "raised"
                  /\ result'.error \in {"ValueError", "ProviderError"}
                  /\ requests' = requests + 1
       /\ (pc = "loop" /\ step < max_steps /\ ~configured) => messages' = messages
       /\ pc = "raised" => (requests' = requests /\ messages' = messages /\ pc' = "raised")
      ]_vars

\* The provider failed in the second step of a run.
C10_Witness ==
    /\ pc = "raised"
    /\ result.error = "ProviderError"
    /\ requests = 2
    /\ Len(messages) = 4

\* ---------------------------------------------------------------------- C11
Other(a) == CHOOSE b \in Agents : b # a

\* C11: the conversation is scoped to one agent instance. Two constructed agents never
\* refer to the same list, neither refers to the list of the class, every message of an
\* agent's conversation was appended through that agent, and no operation on one agent
\* changes the conversation of the other.
C11_ConversationPerAgent ==
    /\ [](\A a \in Agents :
            heap.made[a] =>
                /\ heap.ref[a] # 0
                /\ \A i \in 1..Len(MessagesOf(heap, a)) : MessagesOf(heap, a)[i].content = a
                /\ heap.made[Other(a)] => MessagesRef(heap, a) # MessagesRef(heap, Other(a)))
    /\ [][\A a \in Agents :
            (heap.made[a] /\ heap'.made[a] /\ MessagesOf(heap', a) # MessagesOf(heap, a))
                => (heap.made[Other(a)] =>
                        MessagesOf(heap', Other(a)) = MessagesOf(heap, Other(a)))]_vars

\* Both agents exist, both were talked to, and one of them was reset after the other spoke.
C11_Witness ==
    /\ \A a \in Agents : heap.made[a] /\ Len(MessagesOf(heap, a)) >= 2
    /\ Len(heap.lists) = MaxLists

\* ---------------------------------------------------------------------- C12
\* C12: the revision never mutates the plan in place. The caller's original_travel_plan
\* keeps its fields through every step and every tool call, instances are only ever
\* added, and the plan a completed run returns is an instance created by the validation
\* of that very step, distinct from the original and holding the validated fields.
C12_OriginalPlanUntouched ==
    /\ [](/\ Len(plans.instances) >= 1
          /\ plans.instances[1] = OriginalPlan
          /\ (pc = "returned") = (plans.returned # 0)
          /\ pc = "returned" =>
                /\ plans.returned \in 2..Len(plans.instances)
                /\ plans.instances[plans.returned] = result.plan)
    /\ [][/\ Len(plans'.instances) >= Len(plans.instances)
          /\ \A i \in 1..Len(plans.instances) : plans'.instances[i] = plans.instances[i]
          /\ (pc # "returned" /\ pc' = "returned") =>
                plans'.returned = Len(plans.instances) + 1]_vars

\* A run that called run_evals_tool on a plan and then returned a revised plan.
C12_Witness ==
    /\ pc = "returned"
    /\ result.plan # OriginalPlan
    /\ \E i \in 1..Len(toolLog) : toolLog[i] = "run_evals_tool"

\* ---------------------------------------------------------------------- C13
\* The positions of the evaluators that reported a validation failure.
FailedPositions(verdicts, n) == { i \in 1..n : verdicts[i] = "AgentError" }

\* The k-th of a set of positions, counted from the lowest.
Kth(positions, k) == CHOOSE i \in positions : Cardinality({ j \in positions : j < i }) = k - 1

\* C13: on inputs of the expected classes whose evaluators pass or report validation
\* failures, get_eval_results returns; it has called every configured evaluator in list
\* order, failures holds the messages of exactly the failed evaluators in that order,
\* success holds exactly when failures is empty, and eval_functions names every
\* configured evaluator in order. It returns in no other case.
C13_EveryEvaluatorRuns ==
    (pc = "evals" /\ call.fn = "get_eval_results" /\ call.state # "called") =>
        LET fns == call.input.eval_functions
            verdicts == call.input.verdicts
            n == Len(fns)
            failed == FailedPositions(verdicts, n)
            out == call.output
        IN  /\ (call.state = "returned") =
                    (call.input.valid /\ \A i \in 1..n : verdicts[i] # "RuntimeError")
            /\ call.state = "returned" =>
                    /\ out.ran = fns
                    /\ Len(out.failures) = Cardinality(failed)
                    /\ \A k \in 1..Len(out.failures) : out.failures[k] = fns[Kth(failed, k)]
                    /\ out.success = (out.failures = << >>)
                    /\ out.eval_functions = fns

\* The second and the fourth evaluator failed, the others passed and all of them ran.
C13_Witness ==
    /\ pc = "evals"
    /\ call.fn = "get_eval_results"
    /\ call.state = "returned"
    /\ call.input.eval_functions = ALL_EVAL_FUNCTIONS
    /\ call.output.failures =
            << "eval_total_cost_is_accurate", "eval_itinerary_satisfies_interests" >>
    /\ ~call.output.success

\* ---------------------------------------------------------------------- C14
\* C14: the feedback evaluator passes only when the final classification of the judgment
\* is FULLY_INCORPORATED; a final classification of PARTIALLY_INCORPORATED,
\* NOT_INCORPORATED or UNKNOWN raises AgentError carrying that classification, whatever
\* other labels the text mentions; a reply without the marker or without a label of the
\* taxonomy raises a fatal error, not AgentError.
C14_OnlyFullIncorporationPasses ==
    (pc = "evals" /\ call.fn = "eval_traveler_feedback_is_incorporated"
                  /\ call.state # "called") =>
        LET reply == call.input
            classified == ~reply.none /\ reply.marker /\ reply.final \in FeedbackLabels
        IN  /\ call.state = "returned" => (classified /\ reply.final = "FULLY_INCORPORATED")
            /\ (classified /\ reply.final # "FULLY_INCORPORATED") =>
                    (call.state = "raised" /\ call.output = Error("AgentError", reply.final))
            /\ ~classified =>
                    (call.state = "raised" /\ call.output.type # "AgentError")

\* ---------------------------------------------------------------------- C15
\* C15: the interests evaluator fails exactly when some traveler has no activity sharing
\* an interest with them, and the failure names exactly the travelers in that case, also
\* when two travelers bear the same name.
C15_EveryTravelerIsServed ==
    (pc = "evals" /\ call.fn = "eval_itinerary_satisfies_interests"
                  /\ call.state # "called") =>
        LET travelers == call.input.travelers
            activities == call.input.activities
            unserved == { i \in 1..Len(travelers) :
                            \A k \in 1..Len(activities) :
                                travelers[i].interests \cap activities[k] = {} }
        IN  /\ (call.state = "raised") = (unserved # {})
            /\ call.state = "raised" =>
                    /\ call.output.type = "AgentError"
                    /\ { call.output.message[k] : k \in 1..Len(call.output.message) }
                            = { travelers[i].name : i \in unserved }

\* ---------------------------------------------------------------------- C16
\* C16: the weather evaluator asks for one judgment per scheduled activity in itinerary
\* order; the activities judged IS_INCOMPATIBLE are collected and reported together in
\* one AgentError after all were judged; an activity counts as compatible only when its
\* judgment is IS_COMPATIBLE; a judgment that is neither label raises a fatal error.
C16_WeatherJudgments ==
    (pc = "evals" /\ call.fn = "eval_activities_and_weather_are_compatible"
                  /\ call.state # "called") =>
        LET replies == call.input
            n == Len(replies)
            neither == { i \in 1..n : replies[i].final \notin {"IS_COMPATIBLE", "IS_INCOMPATIBLE"} }
            incompatible == { i \in 1..n : replies[i].final = "IS_INCOMPATIBLE" }
            out == call.output
        IN  /\ neither # {} => (call.state = "raised" /\ out.type = "RuntimeError")
            /\ neither = {} =>
                    /\ out.consulted = n
                    /\ (call.state = "raised") = (incompatible # {})
                    /\ call.state = "raised" =>
                            /\ out.type = "AgentError"
                            /\ Len(out.message) = Cardinality(incompatible)
                            /\ \A k \in 1..Len(out.message) :
                                    out.message[k] = Kth(incompatible, k)

\* ---------------------------------------------------------------------- C17
\* The sum of the prices of a plan, counted unit by unit.
PriceUnits(days) ==
    Cardinality({ u \in (1..Len(days)) \X (1..MaxActivities) \X Prices :
                    /\ u[2] <= Len(days[u[1]])
                    /\ u[3] <= days[u[1]][u[2]] })

\* C17: the cost evaluator passes exactly when the sum of the prices of all scheduled
\* activities equals total_cost; a total_cost one unit above or below the sum fails, and
\* the failure carries both figures; a plan without activities passes only with a
\* total_cost of 0.
C17_TotalCostIsExact ==
    (pc = "evals" /\ call.fn = "eval_total_cost_is_accurate" /\ call.state # "called") =>
        LET days == call.input.itinerary_days
            stated == call.input.total_cost
            sum == PriceUnits(days)
        IN  /\ (call.state = "returned") = (stated = sum)
            /\ stated \in {sum - 1, sum + 1} => call.state = "raised"
            /\ call.state = "raised" =>
                    call.output = Error("AgentError", CostMismatch(sum, stated))
            /\ sum = 0 => ((call.state = "returned") = (stated = 0))

\* Two days with activities, and a stated cost one unit above the sum: the call failed.
C17_Witness ==
    /\ pc = "evals"
    /\ call.fn = "eval_total_cost_is_accurate"
    /\ call.state = "raised"
    /\ Len(call.input.itinerary_days) = 2
    /\ \A i \in 1..2 : Len(call.input.itinerary_days[i]) >= 1
    /\ call.input.total_cost = call.output.message.actual + 1

\* ---------------------------------------------------------------------- C18
Terminated == pc \in {"returned", "raised"}

\* C18: every run terminates: it returns a plan, raises the exhaustion error or raises a
\* fatal error, after at most max_steps model requests. Each step makes exactly one model
\* request, a finished run makes no more, and the exhaustion error is raised only after
\* exactly max_steps requests.
C18_RunTerminates ==
    /\ <>Terminated
    /\ [](requests = step /\ requests <= max_steps)
    /\ []((pc = "raised" /\ result.error = ExhaustedError) => requests = max_steps)
    /\ []((pc = "returned") = (result.kind = "returned"))
    /\ [][/\ requests' \in {requests, requests + 1}
          /\ Len(messages') > Len(messages) /\ pc = "loop" => requests' = requests + 1
          /\ Terminated => (pc' = pc /\ requests' = requests)]_vars

\* The budget was used up by steps that named no valid final answer.
C18_Witness ==
    /\ pc = "raised"
    /\ result.error = ExhaustedError
    /\ max_steps = MaxSteps
    /\ requests = max_steps
    /\ Len(messages) = 2 + 2 * max_steps

\* ---------------------------------------------------------------------- C19
\* The five checks of a request, in the claimed order: is check k violated by req?
Violates(req, k) ==
    CASE k = 1 -> req.tool_name.t = "absent"
      [] k = 2 -> req.arguments.t = "absent"
      [] k = 3 -> req.arguments.t \notin {"absent", "dict"}
      [] k = 4 -> req.tool_name.t \notin {"absent", "str"}
      [] k = 5 -> req.tool_name.t = "str" /\ req.tool_name.v \notin RegisteredNames

\* The observation claimed for each check.
Rejection(req, k) ==
    CASE k = 1 -> Observation("NoToolName", Absent, NoDetail)
      [] k = 2 -> Observation("NoArguments", Absent, NoDetail)
      [] k = 3 -> Observation("ArgumentsNotDict", Absent, NoDetail)
      [] k = 4 -> Observation("ToolNameNotString", Absent, NoDetail)
      [] k = 5 -> Observation("UnknownTool", req.tool_name, NoDetail)

\* C19: the dispatcher checks a request in the order: tool_name missing, arguments
\* missing, arguments no mapping, tool_name no string, tool unknown. A request that
\* violates several checks gets the observation of the earliest one, the five
\* observations differ from one another, and no tool body is invoked.
C19_EarliestCheckWins ==
    pc = "dispatched" =>
        LET violated == { k \in 1..5 : Violates(request, k) }
            first == CHOOSE k \in violated : \A j \in violated : k <= j
        IN  /\ \A j, k \in 1..5 : j # k => Rejection(request, j) # Rejection(request, k)
            /\ violated # {} =>
                    /\ observed = NoCall(Rejection(request, first))
                    /\ toolLog = << >>
            /\ violated = {} => Len(observed.calls) = 1

\* The arguments are a list and the tool name is a number: the arguments are reported.
C19_Witness ==
    /\ pc = "dispatched"
    /\ request.tool_name = Num("42")
    /\ request.arguments = JList
    /\ observed.obs.kind = "ArgumentsNotDict"
    /\ observed.calls = << >>

\* ---------------------------------------------------------------------- C20
\* The conversation as it stood at the first model request of the run.
AtFirstRequest == << Message("system", SystemPrompt), Message("user", RevisionRequest) >>

\* C20: a step that neither completes the run nor fails fatally appends exactly two
\* messages, the assistant turn and then one user observation; the completing step
\* appends the assistant turn only; the conversation only grows; after k finished
\* non-terminal steps it is 2k longer than at the first model request and alternates
\* assistant and user from there on.
C20_TwoMessagesPerStep ==
    /\ [](pc = "loop" =>
            /\ Len(messages) = Len(AtFirstRequest) + 2 * step
            /\ SubSeq(messages, 1, Len(AtFirstRequest)) = AtFirstRequest
            /\ \A k \in 1..step :
                    /\ messages[Len(AtFirstRequest) + 2 * k - 1].role = "assistant"
                    /\ messages[Len(AtFirstRequest) + 2 * k].role = "user")
    /\ [][/\ Len(messages') >= Len(messages)
          /\ SubSeq(messages', 1, Len(messages)) = messages
          /\ (pc = "loop" /\ pc' = "loop") =>
                /\ step' = step + 1
                /\ Len(messages') = Len(messages) + 2
                /\ messages'[Len(messages) + 1].role = "assistant"
                /\ messages'[Len(messages) + 2].role = "user"
          /\ (pc = "loop" /\ pc' = "returned") =>
                /\ Len(messages') = Len(messages) + 1
                /\ messages'[Len(messages')].role = "assistant"]_vars

\* One step ended with an observation and the next one completed the run.
C20_Witness ==
    /\ pc = "returned"
    /\ step = 2
    /\ Len(messages) = 5
    /\ messages[4].role = "user"
    /\ messages[5].role = "assistant"

\* ---------------------------------------------------------------------- C21
\* C21: at the first model request of every invocation of run_react_cycle, also of a
\* second one on an agent that already ran, the conversation is exactly the system
\* prompt followed by one user message holding the plan to revise.
C21_TwoMessagesAtFirstRequest ==
    (Iterating /\ step = 0) => messages = AtFirstRequest

\* ---------------------------------------------------------------------- C22
\* C22: a final answer is accepted on the structural validation of its payload alone. In
\* any step, the first included, a response naming final_answer_tool with a payload that
\* validates completes the run, whatever was or was not evaluated before; that step
\* invokes no tool body, and the loop never invokes the body of final_answer_tool.
C22_FinalAnswerNeedsNoEvaluation ==
    /\ [](\A i \in 1..Len(toolLog) : toolLog[i] # "final_answer_tool")
    /\ [][(Answered /\ ValidFinalAnswer(Raw))
            => /\ pc' = "returned"
               /\ result'.kind = "returned"
               /\ toolLog' = toolLog]_vars

\* The run completed in its first step: no tool was called and nothing was evaluated.
C22_Witness ==
    /\ pc = "returned"
    /\ step = 1
    /\ max_steps = MaxSteps
    /\ toolLog = << >>
    /\ Len(messages) = 3
    /\ ~EvaluationPassed

\* ---------------------------------------------------------------------- C23
\* The response holds several ACTION: markers.
SeveralMarkers(r) == ~r.none /\ Len(r.parts) >= 3

\* C23 (as claimed): a step whose response holds several ACTION: markers parses one
\* action, the text between the first and the second marker, and invokes at most one
\* tool body, the one that action names; the later actions are ignored; unless that first
\* action is the final answer that completes the run, the step appends exactly one
\* observation and the loop goes on.
C23_OnlyFirstActionParsed ==
    [][(Answered /\ SeveralMarkers(Raw))
          => /\ parses' = parses + 1
             /\ \/ toolLog' = toolLog
                \/ /\ Raw.parts[2].kind = "json"
                   /\ Raw.parts[2].val.t = "object"
                   /\ toolLog' = Append(toolLog, Raw.parts[2].val.tool_name.v)
             /\ IF ValidFinalAnswer(Raw)
                THEN pc' = "returned" /\ Len(messages') = Len(messages) + 1
                ELSE /\ pc' = "loop"
                     /\ Len(messages') = Len(messages) + 2
                     /\ messages'[Len(messages')].role = "user"]_vars

====
